---- MODULE Spec2Model ----
(***************************************************************************)
(* Model of alacritty_terminal/src/term/cell.rs: the terminal cell, its    *)
(* emptiness test, reset, zero-width storage, the occupied length of a row *)
(* and the SGR escape encoder Cell::as_escape.                             *)
(*                                                                         *)
(* A Flags value (a u16 bitset) is the set of the names of its set bits.   *)
(* A String buffer is the sequence of its bytes, each a one-character      *)
(* string; the byte 0x1b is written "ESC".  Option<T> is a sequence of     *)
(* length 0 (None) or 1 (Some).                                            *)
(***************************************************************************)
EXTENDS Integers, Sequences, FiniteSets

VARIABLES
    cell,       \* the cell operated on (self)
    pushed,     \* history: characters pushed since creation, drop_extra or reset
    op,         \* name of the most recent cell operation
    template,   \* argument of the most recent reset
    row,        \* the row handed to line_length
    length,     \* result of the most recent line_length call
    empty,      \* result of the most recent is_empty call
    last,       \* the previously emitted cell
    before,     \* buffer content when as_escape was called
    buf,        \* the output buffer
    term,       \* attributes the receiving terminal currently renders with
    pc          \* position of the caller

vars == <<cell, pushed, op, template, row, length, empty, last, before, buf, term, pc>>

\* ---------------------------------------------------------------- bounds
\* Longest zero-width sequence pushed onto one cell.
MaxZerowidth == 2
\* Longest row handed to line_length.
MaxCols == 4
\* Longest buffer content present before an as_escape call.
MaxPrior == 2

\* ----------------------------------------------------------------- Flags
INVERSE == {"INVERSE"}
BOLD == {"BOLD"}
ITALIC == {"ITALIC"}
BOLD_ITALIC == BOLD \cup ITALIC
UNDERLINE == {"UNDERLINE"}
WRAPLINE == {"WRAPLINE"}
WIDE_CHAR == {"WIDE_CHAR"}
WIDE_CHAR_SPACER == {"WIDE_CHAR_SPACER"}
DIM == {"DIM"}
DIM_BOLD == DIM \cup BOLD
HIDDEN == {"HIDDEN"}
STRIKEOUT == {"STRIKEOUT"}
LEADING_WIDE_CHAR_SPACER == {"LEADING_WIDE_CHAR_SPACER"}
DOUBLE_UNDERLINE == {"DOUBLE_UNDERLINE"}

\* Flags::all(): every bit the bitset declares.
AllFlags ==
    INVERSE \cup BOLD \cup ITALIC \cup UNDERLINE \cup WRAPLINE \cup WIDE_CHAR
        \cup WIDE_CHAR_SPACER \cup DIM \cup HIDDEN \cup STRIKEOUT
        \cup LEADING_WIDE_CHAR_SPACER \cup DOUBLE_UNDERLINE

\* Flags::contains, Flags::intersects and the ^ operator of the bitset.
contains(flags, other) == other \subseteq flags
intersects(flags, other) == (flags \cap other) # {}
xor(a, b) == (a \ b) \cup (b \ a)

\* ----------------------------------------------------------------- Color
Named(name) == [tag |-> "Named", name |-> name, index |-> 0, r |-> 0, g |-> 0, b |-> 0]
Indexed(i) == [tag |-> "Indexed", name |-> "", index |-> i, r |-> 0, g |-> 0, b |-> 0]
Rgb(r, g, b) == [tag |-> "Spec", name |-> "", index |-> 0, r |-> r, g |-> g, b |-> b]

\* ------------------------------------------------------------------ Cell
None == <<>>
Some(x) == <<x>>

\* CellExtra::default(): an empty zero-width sequence.
CellExtraDefault == [zerowidth |-> <<>>]

\* Cell::default()
CellDefault ==
    [c |-> " ",
     bg |-> Named("Background"),
     fg |-> Named("Foreground"),
     flags |-> {},
     extra |-> None]

\* From<Color> for Cell
CellFrom(color) == [CellDefault EXCEPT !.bg = color]

\* Cell::zerowidth: Option<&[char]>
zerowidth(self) ==
    IF self.extra = None THEN None ELSE Some(self.extra[1].zerowidth)

\* Cell::push_zerowidth
\* Faulty variant: the new character is put first.
push_zerowidth_prepend(self, ch) ==
    LET extra == IF self.extra = None THEN CellExtraDefault ELSE self.extra[1]
    IN  [self EXCEPT !.extra = Some([zerowidth |-> <<ch>> \o extra.zerowidth])]

push_zerowidth(self, ch) ==
    LET extra == IF self.extra = None THEN CellExtraDefault ELSE self.extra[1]
    IN  [self EXCEPT !.extra = Some([zerowidth |-> Append(extra.zerowidth, ch)])]

\* Cell::drop_extra
drop_extra(self) ==
    IF self.extra # None THEN [self EXCEPT !.extra = None] ELSE self

\* GridCell::is_empty
\* Faulty variant: WRAPLINE is missing from the mask.
is_empty_no_wrapline(self) ==
    /\ (self.c = " " \/ self.c = "\t")
    /\ self.bg = Named("Background")
    /\ self.fg = Named("Foreground")
    /\ ~intersects(self.flags,
            INVERSE \cup UNDERLINE \cup DOUBLE_UNDERLINE \cup STRIKEOUT
                \cup WIDE_CHAR_SPACER \cup LEADING_WIDE_CHAR_SPACER)
    /\ (IF self.extra = None THEN None ELSE Some(self.extra[1].zerowidth = <<>>))
            # Some(FALSE)

is_empty(self) ==
    /\ (self.c = " " \/ self.c = "\t")
    /\ self.bg = Named("Background")
    /\ self.fg = Named("Foreground")
    /\ ~intersects(self.flags,
            INVERSE \cup UNDERLINE \cup DOUBLE_UNDERLINE \cup STRIKEOUT
                \cup WRAPLINE \cup WIDE_CHAR_SPACER \cup LEADING_WIDE_CHAR_SPACER)
    /\ (IF self.extra = None THEN None ELSE Some(self.extra[1].zerowidth = <<>>))
            # Some(FALSE)

\* GridCell::reset
\* Faulty variant: the extended storage survives.
reset_keep_extra(self, t) == [CellDefault EXCEPT !.bg = t.bg, !.extra = self.extra]

reset(self, t) == [CellDefault EXCEPT !.bg = t.bg]

\* ResetDiscriminant<Color> for Cell
discriminant(self) == self.bg


\* LineLength for grid::Row<Cell>: the backward scan of the for loop, where
\* index is the position in the reversed iteration.
\* Faulty variant: off by one.
RECURSIVE scan_short(_, _)
scan_short(self, index) ==
    IF index = Len(self) THEN 0
    ELSE IF ~is_empty(self[Len(self) - index]) THEN Len(self) - index - 1
    ELSE scan_short(self, index + 1)

\* Faulty variant: a row with no occupied cell counts as full.
RECURSIVE scan_full_when_blank(_, _)
scan_full_when_blank(self, index) ==
    IF index = Len(self) THEN Len(self)
    ELSE IF ~is_empty(self[Len(self) - index]) THEN Len(self) - index
    ELSE scan_full_when_blank(self, index + 1)

RECURSIVE scan(_, _)
scan(self, index) ==
    IF index = Len(self) THEN 0
    ELSE IF ~is_empty(self[Len(self) - index]) THEN Len(self) - index
    ELSE scan(self, index + 1)

\* LineLength for grid::Row<Cell>::line_length
line_length(self) ==
    IF contains(self[Len(self)].flags, WRAPLINE) THEN Len(self)
    ELSE scan(self, 0)

\* ------------------------------------------------------- escape encoder
Digit == <<"0", "1", "2", "3", "4", "5", "6", "7", "8", "9">>

\* The decimal digits of n, most significant first.
RECURSIVE Decimal(_)
Decimal(n) ==
    IF n < 10 THEN <<Digit[n + 1]>>
    ELSE Append(Decimal(n \div 10), Digit[(n % 10) + 1])

\* build.rs: U8_TO_STR[n] is concat!(n, ";")
U8_TO_STR(n) == Decimal(n) \o <<";">>

\* Color::as_escape(buf, last, is_fg): the parameters one color contributes,
\* each followed by a semicolon, and nothing when the color is unchanged.
ColorParams(color, is_fg) ==
    CASE color.tag = "Named" /\ color.name = "Foreground" /\ is_fg -> <<"3", "9", ";">>
      [] color.tag = "Named" /\ color.name = "Background" /\ ~is_fg -> <<"4", "9", ";">>
      [] color.tag = "Named" /\ color.name = "Green" ->
            <<(IF is_fg THEN "3" ELSE "4"), "2", ";">>
      [] color.tag = "Indexed" ->
            <<(IF is_fg THEN "3" ELSE "4"), "8", ";", "5", ";">> \o U8_TO_STR(color.index)
      [] color.tag = "Spec" ->
            <<(IF is_fg THEN "3" ELSE "4"), "8", ";", "2", ";">>
                \o U8_TO_STR(color.r) \o U8_TO_STR(color.g) \o U8_TO_STR(color.b)

ColorAsEscape(b, color, lastColor, is_fg) ==
    IF color = lastColor THEN b ELSE b \o ColorParams(color, is_fg)

\* The csi!() macro of as_escape: drop the introducer when nothing followed
\* it, else overwrite the last byte with the terminator.
\* Faulty variant: only one byte of the introducer is removed.
csi_truncates_one(b, empty_len) ==
    IF Len(b) = empty_len THEN SubSeq(b, 1, empty_len - 1)
    ELSE [b EXCEPT ![Len(b)] = "m"]

\* Faulty variant: the introducer is recognised only in an empty buffer.
csi_assumes_empty_buffer(b, empty_len) ==
    IF Len(b) = 2 THEN SubSeq(b, 1, empty_len - 2)
    ELSE [b EXCEPT ![Len(b)] = "m"]

csi(b, empty_len) ==
    IF Len(b) = empty_len THEN SubSeq(b, 1, empty_len - 2)
    ELSE [b EXCEPT ![Len(b)] = "m"]

\* The bold/dim step of as_escape.
\* Faulty variant: DIM takes priority over BOLD.
bold_dim_prefers_dim(b, flags, diff) ==
    IF intersects(diff, BOLD \cup DIM) THEN
        IF ~intersects(flags, BOLD \cup DIM) THEN b \o <<"2", "2", ";">>
        ELSE IF contains(flags, DIM) THEN b \o <<"2", ";">>
        ELSE b \o <<"1", ";">>
    ELSE b

bold_dim(b, flags, diff) ==
    IF intersects(diff, BOLD \cup DIM) THEN
        IF ~intersects(flags, BOLD \cup DIM) THEN b \o <<"2", "2", ";">>
        ELSE IF contains(flags, BOLD) THEN b \o <<"1", ";">>
        ELSE b \o <<"2", ";">>
    ELSE b

\* The append_if_flags_differ!(flag, num) macro of as_escape.
append_if_flags_differ(b, flags, diff, flag, num) ==
    IF contains(diff, flag) THEN
        IF contains(flags, flag) THEN b \o <<num, ";">>
        ELSE b \o <<"2", num, ";">>
    ELSE b

\* The five append_if_flags_differ! calls of as_escape, in source order.
\* Faulty variant: underline is appended before italic.
flag_codes_underline_first(b, flags, diff) ==
    LET b1 == append_if_flags_differ(b, flags, diff, UNDERLINE, "4")
        b2 == append_if_flags_differ(b1, flags, diff, ITALIC, "3")
        b3 == append_if_flags_differ(b2, flags, diff, INVERSE, "7")
        b4 == append_if_flags_differ(b3, flags, diff, HIDDEN, "8")
    IN  append_if_flags_differ(b4, flags, diff, STRIKEOUT, "9")

flag_codes(b, flags, diff) ==
    LET b1 == append_if_flags_differ(b, flags, diff, ITALIC, "3")
        b2 == append_if_flags_differ(b1, flags, diff, UNDERLINE, "4")
        b3 == append_if_flags_differ(b2, flags, diff, INVERSE, "7")
        b4 == append_if_flags_differ(b3, flags, diff, HIDDEN, "8")
    IN  append_if_flags_differ(b4, flags, diff, STRIKEOUT, "9")

\* Cell::as_escape(&self, buf, last): the buffer after the call.
as_escape(self, b, lastCell) ==
    LET b0 == b \o <<"ESC", "[">>
        empty_len == Len(b0)
        b1 == ColorAsEscape(b0, self.fg, lastCell.fg, TRUE)
        b2 == ColorAsEscape(b1, self.bg, lastCell.bg, FALSE)
        diff == xor(self.flags, lastCell.flags)
    IN  IF self.flags = lastCell.flags THEN csi(b2, empty_len)
        ELSE csi(flag_codes(bold_dim(b2, self.flags, diff), self.flags, diff), empty_len)


\* ------------------------------------------------------------ input sets
Glyphs == {" ", "\t", "a"}
ZeroWidthChars == {"u0301", "u0308"}
FgColors == {Named("Foreground"), Named("Background"), Indexed(100)}
BgColors == {Named("Background"), Named("Foreground"), Rgb(5, 10, 255)}

\* Flags the external state machine toggles through flags_mut in SpecCell.
WrittenFlags == {BOLD, UNDERLINE, WRAPLINE}

\* Templates handed to reset: every field of the last one differs from the
\* default cell.
Templates ==
    {CellDefault, CellFrom(Rgb(5, 10, 255)),
     [c |-> "a", bg |-> Indexed(100), fg |-> Named("Green"),
      flags |-> BOLD \cup UNDERLINE,
      extra |-> Some([zerowidth |-> <<"u0301">>])]}

\* Values every variable holds in a specification that does not use it.
IdleCell == /\ cell = CellDefault /\ pushed = <<>> /\ op = "new" /\ template = CellDefault
IdleRow == row = <<>> /\ length = 0
IdleEmpty == empty = FALSE
IdleEscape == /\ last = CellDefault /\ before = <<>> /\ buf = <<>> /\ term = {}

\* ------------------------------------------- SpecCell: one cell's lifetime
InitCell ==
    /\ cell \in {CellDefault} \cup {CellFrom(color) : color \in BgColors}
    /\ pushed = <<>>
    /\ op = "new"
    /\ template = CellDefault
    /\ pc = "idle"
    /\ IdleRow /\ IdleEmpty /\ IdleEscape

UnchangedOutsideCell == UNCHANGED <<row, length, empty, last, before, buf, term, pc>>

\* The owner writes the public fields c, fg and bg.
WriteGlyph(ch) ==
    /\ cell' = [cell EXCEPT !.c = ch]
    /\ op' = "write"
    /\ UNCHANGED <<pushed, template>>
    /\ UnchangedOutsideCell

WriteFg(color) ==
    /\ cell' = [cell EXCEPT !.fg = color]
    /\ op' = "write"
    /\ UNCHANGED <<pushed, template>>
    /\ UnchangedOutsideCell

WriteBg(color) ==
    /\ cell' = [cell EXCEPT !.bg = color]
    /\ op' = "write"
    /\ UNCHANGED <<pushed, template>>
    /\ UnchangedOutsideCell

\* GridCell::flags_mut followed by a toggle of one flag.
ToggleFlag(flag) ==
    /\ cell' = [cell EXCEPT !.flags = xor(@, flag)]
    /\ op' = "write"
    /\ UNCHANGED <<pushed, template>>
    /\ UnchangedOutsideCell

PushZerowidth(ch) ==
    /\ Len(pushed) < MaxZerowidth
    /\ cell' = push_zerowidth(cell, ch)
    /\ pushed' = Append(pushed, ch)
    /\ op' = "push_zerowidth"
    /\ UNCHANGED template
    /\ UnchangedOutsideCell

DropExtra ==
    /\ cell' = drop_extra(cell)
    /\ pushed' = <<>>
    /\ op' = "drop_extra"
    /\ UNCHANGED template
    /\ UnchangedOutsideCell

Reset(t) ==
    /\ cell' = reset(cell, t)
    /\ pushed' = <<>>
    /\ op' = "reset"
    /\ template' = t
    /\ UnchangedOutsideCell

NextCell ==
    \/ \E ch \in Glyphs : WriteGlyph(ch)
    \/ \E color \in FgColors : WriteFg(color)
    \/ \E color \in BgColors : WriteBg(color)
    \/ \E flag \in WrittenFlags : ToggleFlag(flag)
    \/ \E ch \in ZeroWidthChars : PushZerowidth(ch)
    \/ DropExtra
    \/ \E t \in Templates : Reset(t)

SpecCell == InitCell /\ [][NextCell]_vars


\* C5: after reset(t) the cell is the default cell except that its background
\* is t's background; no glyph, foreground, flag or zero-width character of
\* the old cell or of t survives, and zerowidth() is empty.
ResetYieldsDefaultWithTemplateBg ==
    op = "reset" =>
        /\ cell = [CellDefault EXCEPT !.bg = template.bg]
        /\ cell.c = " "
        /\ cell.fg = Named("Foreground")
        /\ cell.flags = {}
        /\ cell.extra = None
        /\ zerowidth(cell) = None

ResetWithFullTemplateReached ==
    /\ op = "reset"
    /\ template.c = "a"
    /\ template.fg = Named("Green")
    /\ template.flags # {}
    /\ template.extra # None
    /\ cell.bg = Indexed(100)

\* C6: the extended storage is absent when nothing was pushed since creation,
\* drop_extra or reset, and otherwise zerowidth() is exactly the characters
\* pushed since then, in push order; it is never present and empty, and after
\* drop_extra the cell has no extended storage.
ExtraHoldsExactlyThePushed ==
    /\ pushed = <<>> => cell.extra = None /\ zerowidth(cell) = None
    /\ pushed # <<>> => zerowidth(cell) = Some(pushed)
    /\ cell.extra # Some(CellExtraDefault)
    /\ op = "drop_extra" => cell.extra = None

TwoDistinctPushedReached ==
    /\ op = "push_zerowidth"
    /\ Len(pushed) = 2
    /\ pushed[1] # pushed[2]
    /\ zerowidth(cell) = Some(pushed)

\* ------------------------------------ SpecEmpty: is_empty on any one cell
\* Extended storage of an input cell: absent, present and empty (a decoded
\* cell), or holding one character.
ExtraInputs == {None, Some(CellExtraDefault), Some([zerowidth |-> <<"u0301">>])}

InitEmpty ==
    /\ cell \in [c : Glyphs, bg : BgColors, fg : FgColors,
                 flags : SUBSET AllFlags, extra : ExtraInputs]
    /\ pushed = <<>> /\ op = "new" /\ template = CellDefault
    /\ empty = FALSE
    /\ pc = "idle"
    /\ IdleRow /\ IdleEscape

CallIsEmpty ==
    /\ pc = "idle"
    /\ empty' = is_empty(cell)
    /\ pc' = "done"
    /\ UNCHANGED <<cell, pushed, op, template, row, length, last, before, buf, term>>

NextEmpty == CallIsEmpty

SpecEmpty == InitEmpty /\ [][NextEmpty]_vars

\* C4: is_empty() holds exactly when the glyph is space or tab, fg and bg are
\* the named Foreground and Background, none of INVERSE, UNDERLINE,
\* DOUBLE_UNDERLINE, STRIKEOUT, WRAPLINE, WIDE_CHAR_SPACER and
\* LEADING_WIDE_CHAR_SPACER is set and the extended storage is absent or
\* holds no character; toggling BOLD, ITALIC, DIM, HIDDEN or WIDE_CHAR never
\* changes the result.
IsEmptyIffBlank ==
    pc = "done" =>
        /\ empty <=>
            /\ cell.c \in {" ", "\t"}
            /\ cell.fg = Named("Foreground")
            /\ cell.bg = Named("Background")
            /\ \A f \in {"INVERSE", "UNDERLINE", "DOUBLE_UNDERLINE", "STRIKEOUT",
                         "WRAPLINE", "WIDE_CHAR_SPACER", "LEADING_WIDE_CHAR_SPACER"} :
                    f \notin cell.flags
            /\ (cell.extra = None \/ Len(cell.extra[1].zerowidth) = 0)
        /\ \A f \in {"BOLD", "ITALIC", "DIM", "HIDDEN", "WIDE_CHAR"} :
            /\ is_empty([cell EXCEPT !.flags = @ \cup {f}]) = empty
            /\ is_empty([cell EXCEPT !.flags = @ \ {f}]) = empty

BoldSpaceWithEmptyExtraIsEmpty ==
    /\ pc = "done"
    /\ empty
    /\ {"BOLD", "ITALIC", "DIM", "HIDDEN", "WIDE_CHAR"} \subseteq cell.flags
    /\ cell.c = "\t"
    /\ cell.extra = Some(CellExtraDefault)

\* ------------------------------------------ SpecRow: line_length of a row
\* Cells the owner writes into a row: blank, blank but bold, a glyph, a
\* wrapped-line marker, a colored blank, and a blank with a zero-width
\* character.
RowCells ==
    {CellDefault,
     [CellDefault EXCEPT !.flags = BOLD],
     [CellDefault EXCEPT !.c = "a"],
     [CellDefault EXCEPT !.flags = WRAPLINE],
     CellFrom(Rgb(5, 10, 255)),
     push_zerowidth(CellDefault, "u0301")}

\* Row::new(columns): a row of default cells.
RowNew(columns) == [i \in 1..columns |-> CellDefault]

InitRow ==
    /\ row \in {RowNew(n) : n \in 1..MaxCols}
    /\ length = 0
    /\ pc = "idle"
    /\ IdleCell /\ IdleEmpty /\ IdleEscape

WriteCell(i, c) ==
    /\ row' = [row EXCEPT ![i] = c]
    /\ length' = 0
    /\ pc' = "idle"
    /\ UNCHANGED <<cell, pushed, op, template, empty, last, before, buf, term>>

CallLineLength ==
    /\ pc = "idle"
    /\ length' = line_length(row)
    /\ pc' = "done"
    /\ UNCHANGED <<cell, pushed, op, template, row, empty, last, before, buf, term>>

NextRow ==
    \/ \E i \in 1..Len(row), c \in RowCells : WriteCell(i, c)
    \/ CallLineLength

SpecRow == InitRow /\ [][NextRow]_vars

\* Number of consecutive trailing cells of r for which is_empty() holds.
TrailingEmpty(r) ==
    LET blank == {k \in 0..Len(r) : \A i \in (Len(r) - k + 1)..Len(r) : is_empty(r[i])}
    IN  CHOOSE k \in blank : \A j \in blank : j <= k

\* C3: line_length is N when the last cell has WRAPLINE, otherwise N - k with
\* k the number of consecutive trailing empty cells, and 0 when every cell is
\* empty.
LineLengthIsWraplineOrTrimmed ==
    pc = "done" =>
        LET N == Len(row)
        IN  /\ "WRAPLINE" \in row[N].flags => length = N
            /\ "WRAPLINE" \notin row[N].flags => length = N - TrailingEmpty(row)
            /\ (\A i \in 1..N : is_empty(row[i])) => length = 0

TrimmedRowReached ==
    /\ pc = "done"
    /\ Len(row) = MaxCols
    /\ "WRAPLINE" \notin row[Len(row)].flags
    /\ length = 2
    /\ row[3].flags = BOLD

WraplineRowReached ==
    /\ pc = "done"
    /\ Len(row) >= 3
    /\ "WRAPLINE" \in row[Len(row)].flags
    /\ is_empty(row[Len(row) - 1])
    /\ length = Len(row)

\* C9: the result r satisfies 0 <= r <= N, every cell at index >= r is empty
\* and, when r > 0, the cell at index r - 1 is not empty; r = 0 exactly when
\* the whole row is empty (cells are indexed from 0 in the claim and from 1
\* here).
LineLengthIsLastNonEmptyPlusOne ==
    pc = "done" =>
        /\ 0 <= length /\ length <= Len(row)
        /\ \A i \in (length + 1)..Len(row) : is_empty(row[i])
        /\ length > 0 => ~is_empty(row[length])
        /\ length = 0 <=> \A i \in 1..Len(row) : is_empty(row[i])


\* ------------------------------------- SpecEscape: one call of as_escape
\* Flags with an SGR code, and flags without one.
SgrFlags == BOLD \cup DIM \cup ITALIC \cup UNDERLINE \cup INVERSE \cup HIDDEN \cup STRIKEOUT
NonSgrFlags == AllFlags \ SgrFlags

\* Colors of the cells handed to the encoder.
EscapeFg == {Named("Foreground"), Indexed(100)}
EscapeBg == {Named("Background"), Rgb(5, 10, 255)}

\* Cells handed to the encoder in SpecEscape: every combination of the flags
\* that have an SGR code, with every color pair.
EscapeCells ==
    {[CellDefault EXCEPT !.fg = f, !.bg = g, !.flags = fl] :
        f \in EscapeFg, g \in EscapeBg, fl \in SUBSET SgrFlags}

\* Buffer content present before the call in SpecEscape.
EscapePriors == {<<>>, [i \in 1..MaxPrior |-> ";"]}

InitEscape ==
    /\ cell \in EscapeCells
    /\ last \in EscapeCells
    /\ before \in EscapePriors
    /\ buf = before
    /\ term = {}
    /\ pc = "idle"
    /\ pushed = <<>> /\ op = "new" /\ template = CellDefault
    /\ IdleRow /\ IdleEmpty

CallAsEscape ==
    /\ pc = "idle"
    /\ buf' = as_escape(cell, buf, last)
    /\ pc' = "done"
    /\ UNCHANGED <<cell, pushed, op, template, row, length, empty, last, before, term>>

NextEscape == CallAsEscape

SpecEscape == InitEscape /\ [][NextEscape]_vars

\* ---------------------------------- SpecFrame: as_escape and the old buffer
\* Cells handed to the encoder in SpecFrame: every combination of the flags
\* without an SGR code, over three settings of the flags that have one.
FrameCells ==
    {[CellDefault EXCEPT !.fg = f, !.bg = g, !.flags = s \cup n] :
        f \in EscapeFg, g \in EscapeBg, s \in {{}, BOLD \cup ITALIC, SgrFlags},
        n \in SUBSET NonSgrFlags}

\* Every buffer content of at most MaxPrior bytes over these two bytes.
PriorBytes == {"a", ";"}
FramePriors == UNION {[1..n -> PriorBytes] : n \in 0..MaxPrior}

InitFrame ==
    /\ cell \in FrameCells
    /\ last \in FrameCells
    /\ before \in FramePriors
    /\ buf = before
    /\ term = {}
    /\ pc = "idle"
    /\ pushed = <<>> /\ op = "new" /\ template = CellDefault
    /\ IdleRow /\ IdleEmpty

NextFrame == CallAsEscape

SpecFrame == InitFrame /\ [][NextFrame]_vars


\* What the call appended: the buffer after the call without the content
\* present before it.
Appended == SubSeq(buf, Len(before) + 1, Len(buf))

PrefixKept == Len(buf) >= Len(before) /\ SubSeq(buf, 1, Len(before)) = before

\* The byte sequence s cut at its semicolons; a trailing semicolon yields an
\* empty last field.
RECURSIVE SplitParams(_, _, _)
SplitParams(s, i, cur) ==
    IF i > Len(s) THEN <<cur>>
    ELSE IF s[i] = ";" THEN <<cur>> \o SplitParams(s, i + 1, <<>>)
    ELSE SplitParams(s, i + 1, Append(cur, s[i]))

\* The parameters of one sequence ESC [ p1;...;pn m.
SequenceParams(chunk) == SplitParams(SubSeq(chunk, 3, Len(chunk) - 1), 1, <<>>)

\* The parameters a color contributes, as fields.
ColorFields(color, lastColor, is_fg) ==
    IF color = lastColor THEN <<>>
    ELSE LET p == ColorParams(color, is_fg)
         IN  SplitParams(SubSeq(p, 1, Len(p) - 1), 1, <<>>)

\* The parameters of the appended sequence that follow the color parameters.
AttrParams ==
    IF buf = before THEN <<>>
    ELSE LET P == SequenceParams(Appended)
             n == Len(ColorFields(cell.fg, last.fg, TRUE))
                    + Len(ColorFields(cell.bg, last.bg, FALSE))
         IN  SubSeq(P, n + 1, Len(P))

IsBoldDimCode(p) == p \in {<<"1">>, <<"2">>, <<"2", "2">>}

Differs(flag) == (flag \in cell.flags) # (flag \in last.flags)

\* C2: between two cells with identical fg, bg and flags, in particular a
\* cell and itself, as_escape leaves the buffer exactly as it was.
EqualCellsEmitNothing ==
    pc = "done" /\ cell.fg = last.fg /\ cell.bg = last.bg /\ cell.flags = last.flags
        => buf = before

SameCellAfterPriorReached ==
    /\ pc = "done"
    /\ cell = last
    /\ cell.flags # {}
    /\ cell.fg # Named("Foreground")
    /\ Len(before) = MaxPrior
    /\ before[Len(before)] = ";"
    /\ buf = before

\* C10: in every call the old buffer content is an unchanged prefix of the
\* new one, and when colors are equal and the flags differ only in bits
\* without an SGR code the buffer is left exactly as it was.
NonSgrDifferenceEmitsNothing ==
    pc = "done" =>
        /\ PrefixKept
        /\ (cell.fg = last.fg /\ cell.bg = last.bg
                /\ xor(cell.flags, last.flags) \subseteq NonSgrFlags)
            => buf = before

NonSgrDifferenceAfterPriorReached ==
    /\ pc = "done"
    /\ cell.fg = last.fg /\ cell.bg = last.bg
    /\ xor(cell.flags, last.flags) = NonSgrFlags
    /\ Len(before) = MaxPrior
    /\ before[Len(before)] = ";"
    /\ buf = before

\* C7: when BOLD or DIM differs the call emits exactly one bold/dim code, 22
\* if self has neither, else 1 if self has BOLD, else 2; when neither differs
\* it emits none.
OneBoldDimCode ==
    pc = "done" =>
        LET codes == SelectSeq(AttrParams, IsBoldDimCode)
        IN  IF Differs("BOLD") \/ Differs("DIM")
            THEN codes =
                    <<IF "BOLD" \notin cell.flags /\ "DIM" \notin cell.flags
                        THEN <<"2", "2">>
                      ELSE IF "BOLD" \in cell.flags THEN <<"1">>
                      ELSE <<"2">>>>
            ELSE codes = <<>>

BoldWinsOverDimReached ==
    /\ pc = "done"
    /\ last.flags = DIM
    /\ cell.flags = DIM_BOLD \cup UNDERLINE
    /\ cell.fg # last.fg
    /\ SelectSeq(AttrParams, IsBoldDimCode) = <<<<"1">>>>

\* Position of an attribute code in the fixed order, 0 for any other field.
AttrRank(p) ==
    CASE IsBoldDimCode(p) -> 1
      [] p \in {<<"3">>, <<"2", "3">>} -> 2
      [] p \in {<<"4">>, <<"2", "4">>} -> 3
      [] p \in {<<"7">>, <<"2", "7">>} -> 4
      [] p \in {<<"8">>, <<"2", "8">>} -> 5
      [] p \in {<<"9">>, <<"2", "9">>} -> 6
      [] OTHER -> 0

IndependentFlags ==
    {<<"ITALIC", "3">>, <<"UNDERLINE", "4">>, <<"INVERSE", "7">>,
     <<"HIDDEN", "8">>, <<"STRIKEOUT", "9">>}

\* C8: whatever one call appends is a single sequence ESC [ p1;...;pn m with
\* one introducer, one terminator as the last byte and no empty parameter;
\* the parameters are the foreground color's, the background color's, then
\* bold/dim, italic, underline, inverse, hidden, strikeout, each at most
\* once; each of the last five appears exactly when its bit differs, as the
\* set code when self has the bit and the unset code otherwise.
SingleOrderedSequence ==
    pc = "done" /\ buf # before =>
        /\ PrefixKept
        /\ Len(Appended) >= 4
        /\ Appended[1] = "ESC"
        /\ Appended[2] = "["
        /\ Appended[Len(Appended)] = "m"
        /\ \A i \in 3..(Len(Appended) - 1) :
                Appended[i] \in {Digit[d] : d \in 1..10} \cup {";"}
        /\ LET P == SequenceParams(Appended)
               C == ColorFields(cell.fg, last.fg, TRUE)
                        \o ColorFields(cell.bg, last.bg, FALSE)
               A == AttrParams
           IN  /\ \A i \in 1..Len(P) : P[i] # <<>>
               /\ Len(P) >= Len(C)
               /\ SubSeq(P, 1, Len(C)) = C
               /\ \A i \in 1..Len(A) : AttrRank(A[i]) > 0
               /\ \A i, j \in 1..Len(A) : i < j => AttrRank(A[i]) < AttrRank(A[j])
               /\ \A fc \in IndependentFlags :
                    /\ (\E i \in 1..Len(A) : A[i] = <<fc[2]>>)
                            <=> (Differs(fc[1]) /\ fc[1] \in cell.flags)
                    /\ (\E i \in 1..Len(A) : A[i] = <<"2", fc[2]>>)
                            <=> (Differs(fc[1]) /\ fc[1] \notin cell.flags)

AllParameterKindsReached ==
    /\ pc = "done"
    /\ before # <<>>
    /\ cell.fg # last.fg /\ cell.bg # last.bg
    /\ Len(AttrParams) = 6
    /\ AttrParams[2] = <<"3">>
    /\ AttrParams[3] = <<"2", "4">>


\* ------------------- SpecTerm: a row's cells emitted to a terminal in order
\* The receiving terminal applies the parameters ps[i..] of one SGR sequence
\* to its attribute set t: 1 sets bold, 2 sets dim, 22 clears both, 3/23,
\* 4/24, 7/27, 8/28 and 9/29 set and clear italic, underline, inverse, hidden
\* and strikeout; 38 and 48 take the color fields that follow them (5;n or
\* 2;r;g;b); any other parameter is a color and leaves the attributes alone.
RECURSIVE TerminalApplyParams(_, _, _)
TerminalApplyParams(ps, i, t) ==
    IF i > Len(ps) THEN t
    ELSE LET p == ps[i]
         IN  CASE p \in {<<"3", "8">>, <<"4", "8">>} ->
                    IF i < Len(ps) /\ ps[i + 1] = <<"5">>
                        THEN TerminalApplyParams(ps, i + 3, t)
                    ELSE IF i < Len(ps) /\ ps[i + 1] = <<"2">>
                        THEN TerminalApplyParams(ps, i + 5, t)
                    ELSE TerminalApplyParams(ps, i + 1, t)
               [] p = <<"1">> -> TerminalApplyParams(ps, i + 1, t \cup BOLD)
               [] p = <<"2">> -> TerminalApplyParams(ps, i + 1, t \cup DIM)
               [] p = <<"2", "2">> -> TerminalApplyParams(ps, i + 1, t \ DIM_BOLD)
               [] p = <<"3">> -> TerminalApplyParams(ps, i + 1, t \cup ITALIC)
               [] p = <<"2", "3">> -> TerminalApplyParams(ps, i + 1, t \ ITALIC)
               [] p = <<"4">> -> TerminalApplyParams(ps, i + 1, t \cup UNDERLINE)
               [] p = <<"2", "4">> -> TerminalApplyParams(ps, i + 1, t \ UNDERLINE)
               [] p = <<"7">> -> TerminalApplyParams(ps, i + 1, t \cup INVERSE)
               [] p = <<"2", "7">> -> TerminalApplyParams(ps, i + 1, t \ INVERSE)
               [] p = <<"8">> -> TerminalApplyParams(ps, i + 1, t \cup HIDDEN)
               [] p = <<"2", "8">> -> TerminalApplyParams(ps, i + 1, t \ HIDDEN)
               [] p = <<"9">> -> TerminalApplyParams(ps, i + 1, t \cup STRIKEOUT)
               [] p = <<"2", "9">> -> TerminalApplyParams(ps, i + 1, t \ STRIKEOUT)
               [] OTHER -> TerminalApplyParams(ps, i + 1, t)

\* The terminal consumes the bytes of one as_escape call.
TerminalApply(t, chunk) ==
    IF chunk = <<>> THEN t ELSE TerminalApplyParams(SequenceParams(chunk), 1, t)

\* Cells of the emitted row: every combination of the flags with an SGR code,
\* with a default or a direct-color foreground.
TermCells ==
    {[CellDefault EXCEPT !.fg = f, !.flags = fl] :
        f \in {Named("Foreground"), Rgb(5, 10, 255)}, fl \in SUBSET SgrFlags}

\* The terminal starts in the default rendering state and the first cell is
\* encoded against Cell::default().
InitTerm ==
    /\ last = CellDefault
    /\ cell = CellDefault
    /\ before = <<>>
    /\ buf = <<>>
    /\ term = {}
    /\ pc = "idle"
    /\ pushed = <<>> /\ op = "new" /\ template = CellDefault
    /\ IdleRow /\ IdleEmpty

\* The export path encodes the next cell against the previously emitted one.
EmitCell(c) ==
    /\ pc = "idle"
    /\ cell' = c
    /\ buf' = as_escape(c, buf, last)
    /\ pc' = "emitted"
    /\ UNCHANGED <<pushed, op, template, row, length, empty, last, before, term>>

\* The terminal reads what the call wrote and applies it; the emitted cell
\* becomes the previous cell of the next call.
TerminalRead ==
    /\ pc = "emitted"
    /\ term' = TerminalApply(term, buf)
    /\ buf' = <<>>
    /\ last' = cell
    /\ pc' = "idle"
    /\ UNCHANGED <<cell, pushed, op, template, row, length, empty, before>>

NextTerm ==
    \/ \E c \in TermCells : EmitCell(c)
    \/ TerminalRead

SpecTerm == InitTerm /\ [][NextTerm]_vars

\* C1: after every emitted cell has been applied, the terminal's bold, dim,
\* italic, underline, inverse, hidden and strikeout state equals the
\* corresponding bits of that cell's flags.
TerminalStateEqualsCellFlags ==
    pc = "idle" => term = cell.flags \cap SgrFlags

====
